---- MODULE Spec2Model ----
(***************************************************************************)
(* Model of the gasless relay client of src/src/app/contexts/SafeContext.tsx *)
(* (SafeProvider): pollTransactionStatus, deploySafe, checkApprovals,      *)
(* createMultisendData and approveAll, with the relay and the chain as the *)
(* environment.                                                            *)
(***************************************************************************)
EXTENDS Integers, Sequences, FiniteSets, TLC

VARIABLES
    poll,       \* one run of pollTransactionStatus (PollSpec)
    build,      \* approveAll's construction of the approval transaction (BuildSpec)
    wire,       \* approveAll from the nonce answer to the relayer's body (WireSpec)
    check,      \* one run of checkSafeDeployed, request by request (CheckSpec)
    order,      \* one call of placeOrder (OrderSpec)
    address,            \* useWallet().address: the connected owner, or "null"
    safeAddress,        \* useState safeAddress
    isSafeDeployed,     \* useState isSafeDeployed
    isDeployingSafe,    \* useState isDeployingSafe
    approvals,          \* useState approvals
    isCheckingApprovals,\* useState isCheckingApprovals
    isApproving,        \* useState isApproving
    effects,            \* the provider's own asynchronous checks in flight
    tasks,              \* the invocations of deploySafe / approveAll in progress
    chain,              \* the chain: the wallet's code, its approvals and its nonce
    relayTxs            \* the relay's transactions, by transaction id

react == <<address, safeAddress, isSafeDeployed, isDeployingSafe, approvals,
           isCheckingApprovals, isApproving, effects>>
mainVars == <<react, tasks, chain, relayTxs>>
vars == <<poll, build, wire, check, order, mainVars>>

(***************************************************************************)
(* pollTransactionStatus (SafeContext.tsx 198-224)                         *)
(***************************************************************************)

\* TX_STATE (SafeContext.tsx 38-44)
TX_STATE ==
    [PENDING |-> "STATE_PENDING", SUBMITTED |-> "STATE_SUBMITTED",
     MINED |-> "STATE_MINED", CONFIRMED |-> "STATE_CONFIRMED",
     FAILED |-> "STATE_FAILED"]

\* What one status request can yield: a transaction in one of the relay's
\* states, a body with no recognised state (tx?.state undefined or unknown),
\* or a request that throws (fetch or response.json()).
NoState == "NO_STATE"
RequestError == "REQUEST_ERROR"
PollResponses ==
    {TX_STATE.PENDING, TX_STATE.SUBMITTED, TX_STATE.MINED, TX_STATE.CONFIRMED,
     TX_STATE.FAILED, NoState, RequestError}

\* The attempt budget of a run (the maxPolls argument; the code's default is 40).
MaxPolls == 3

\* Mutant: the loop bound off by one (i <= maxPolls).
PollLoopHead_OffByOne(p, maxPolls) ==
    IF p.i <= maxPolls
    THEN [p EXCEPT !.pc = "fetch"]
    ELSE [p EXCEPT !.pc = "done", !.outcome = "timeout"]

\* A run at the head of the for loop: the next iteration, or the throw after it.
PollLoopHead(p, maxPolls) ==
    IF p.i < maxPolls
    THEN [p EXCEPT !.pc = "fetch"]
    ELSE [p EXCEPT !.pc = "done", !.outcome = "timeout"]

\* pollTransactionStatus(txId, maxPolls) is called: i = 0.
PollStart(maxPolls) ==
    PollLoopHead([pc |-> "fetch", i |-> 0, requests |-> 0, log |-> <<>>,
                  outcome |-> "running", tx |-> "none"], maxPolls)

\* await fetch(`/api/safe/status?txId=...`): the request goes out.
PollFetch(p) ==
    [p EXCEPT !.pc = "await", !.requests = @ + 1]

\* The catch block of iteration i: rethrow on the last iteration, else go on
\* with the next iteration (no wait).
PollCatch(p, maxPolls, thrown) ==
    IF p.i = maxPolls - 1
    THEN [p EXCEPT !.pc = "done", !.outcome = thrown]
    ELSE PollLoopHead([p EXCEPT !.i = @ + 1], maxPolls)

\* Mutant: only STATE_MINED counts as completion.
PollRespond_MinedOnly(p, maxPolls, resp) ==
    LET q == [p EXCEPT !.log = Append(@, resp)] IN
    IF resp = RequestError
    THEN PollCatch(q, maxPolls, "error")
    ELSE IF resp = TX_STATE.MINED
    THEN [q EXCEPT !.pc = "done", !.outcome = "success", !.tx = resp]
    ELSE IF resp = TX_STATE.FAILED
    THEN PollCatch(q, maxPolls, "failed")
    ELSE [q EXCEPT !.pc = "sleep"]

\* The response of the request of iteration i is handled inside the try block.
PollRespond(p, maxPolls, resp) ==
    LET q == [p EXCEPT !.log = Append(@, resp)] IN
    IF resp = RequestError
    THEN PollCatch(q, maxPolls, "error")
    ELSE IF resp \in {TX_STATE.MINED, TX_STATE.CONFIRMED}
    THEN [q EXCEPT !.pc = "done", !.outcome = "success", !.tx = resp]
    ELSE IF resp = TX_STATE.FAILED
    THEN PollCatch(q, maxPolls, "failed")
    ELSE [q EXCEPT !.pc = "sleep"]

\* setTimeout(resolve, interval) fires: the iteration ends, i++.
PollWake(p, maxPolls) ==
    PollLoopHead([p EXCEPT !.i = @ + 1, !.log = Append(@, "wait")], maxPolls)

(***************************************************************************)
(* Approval calls and multisend batching (SafeContext.tsx 10-28, 355-363,  *)
(* 382-409, 424-478).  Data is a sequence of bytes (0..255).               *)
(***************************************************************************)

\* ADDRESSES (SafeContext.tsx 10-16), each as its 20 bytes.
ADDRESSES ==
    [USDCe |-> <<39, 145, 188, 161, 242, 222, 70, 97, 237, 136,
                 163, 12, 153, 167, 169, 68, 154, 168, 65, 116>>,
     CTF |-> <<77, 151, 220, 217, 126, 201, 69, 244, 12, 246,
               95, 135, 9, 122, 206, 94, 160, 71, 96, 69>>,
     CTF_EXCHANGE |-> <<75, 251, 65, 213, 179, 87, 13, 239, 208, 60,
                        57, 169, 164, 216, 222, 107, 216, 184, 152, 46>>,
     NEG_RISK_CTF_EXCHANGE |-> <<197, 213, 99, 163, 106, 231, 129, 69, 196, 90,
                                 80, 19, 77, 72, 161, 33, 82, 32, 248, 10>>,
     NEG_RISK_ADAPTER |-> <<217, 30, 128, 207, 46, 123, 226, 225, 98, 198,
                            81, 60, 237, 6, 241, 221, 13, 163, 82, 150>>]

\* SAFE_MULTISEND (SafeContext.tsx 382), as its 20 bytes.
SAFE_MULTISEND ==
    <<64, 162, 172, 203, 217, 43, 202, 147, 139, 2,
      1, 14, 23, 165, 184, 146, 155, 73, 19, 13>>

\* The 4-byte selectors ethers derives from the ABI fragments:
\* approve(address,uint256), setApprovalForAll(address,bool), multiSend(bytes).
SelApprove == <<9, 94, 167, 179>>
SelSetApprovalForAll == <<162, 44, 180, 101>>
SelMultiSend == <<141, 128, 255, 10>>

\* Widths of the ABI encodings in bytes: an address, a uint256 word.
AddressBytes == 20
WordBytes == 32

\* n as `width` big-endian bytes (the uint8 / uint256 packing); the numbers
\* packed here are below 2^24, so every byte above the low three is zero.
ToBytes(n, width) ==
    [k \in 1..width |-> IF width - k >= 3 THEN 0 ELSE (n \div (256 ^ (width - k))) % 256]

\* `width` bytes all equal to b.
Repeat(b, width) == [k \in 1..width |-> b]

\* ethers.constants.MaxUint256 as a uint256 word.
MaxUint256 == Repeat(255, WordBytes)

\* An ABI head word holding an address: left-padded to 32 bytes.
AbiAddress(a) == Repeat(0, WordBytes - AddressBytes) \o a

\* usdcInterface.encodeFunctionData('approve', [spender, MaxUint256])
EncodeApprove(spender) == SelApprove \o AbiAddress(spender) \o MaxUint256

\* ctfInterface.encodeFunctionData('setApprovalForAll', [spender, true])
EncodeSetApprovalForAll(spender) ==
    SelSetApprovalForAll \o AbiAddress(spender) \o ToBytes(1, WordBytes)

\* The fixed requirement list checkApprovals builds (SafeContext.tsx 355-363).
Requirements ==
    << [name |-> "USDC -> CTF", type |-> "erc20", spender |-> ADDRESSES.CTF],
       [name |-> "USDC -> Exchange", type |-> "erc20", spender |-> ADDRESSES.CTF_EXCHANGE],
       [name |-> "USDC -> NegRisk Exchange", type |-> "erc20",
        spender |-> ADDRESSES.NEG_RISK_CTF_EXCHANGE],
       [name |-> "USDC -> NegRisk Adapter", type |-> "erc20",
        spender |-> ADDRESSES.NEG_RISK_ADAPTER],
       [name |-> "CTF -> Exchange", type |-> "erc1155", spender |-> ADDRESSES.CTF_EXCHANGE],
       [name |-> "CTF -> NegRisk Exchange", type |-> "erc1155",
        spender |-> ADDRESSES.NEG_RISK_CTF_EXCHANGE],
       [name |-> "CTF -> NegRisk Adapter", type |-> "erc1155",
        spender |-> ADDRESSES.NEG_RISK_ADAPTER] >>

ReqIds == 1..Len(Requirements)

\* approvalStatuses as checkApprovals sets them when the chain holds exactly
\* the approvals `granted` (a set of requirement indexes).
ApprovalStatuses(granted) ==
    [k \in ReqIds |-> [name |-> Requirements[k].name, type |-> Requirements[k].type,
                       spender |-> Requirements[k].spender, approved |-> k \in granted]]

\* approvals.filter(a => !a.approved)  (SafeContext.tsx 424)
RECURSIVE FilterPending(_)
FilterPending(statuses) ==
    IF statuses = <<>> THEN <<>>
    ELSE IF ~statuses[1].approved
    THEN <<statuses[1]>> \o FilterPending(Tail(statuses))
    ELSE FilterPending(Tail(statuses))

\* Every status of a list is approved (allApproved, line 601).
AllApproved(statuses) ==
    Len(statuses) > 0 /\ \A k \in 1..Len(statuses) : statuses[k].approved

\* Mutant: every pending approval is approved as an erc20 allowance.
ApprovalTransaction_AlwaysErc20(approval) ==
    [to |-> ADDRESSES.USDCe, data |-> EncodeApprove(approval.spender),
     value |-> 0, operation |-> 0]

\* The call built for one pending approval (SafeContext.tsx 438-454).
ApprovalTransaction(approval) ==
    IF approval.type = "erc20"
    THEN [to |-> ADDRESSES.USDCe, data |-> EncodeApprove(approval.spender),
          value |-> 0, operation |-> 0]
    ELSE [to |-> ADDRESSES.CTF, data |-> EncodeSetApprovalForAll(approval.spender),
          value |-> 0, operation |-> 0]

\* pending.map(...)
BuildTransactions(pending) ==
    [k \in 1..Len(pending) |-> ApprovalTransaction(pending[k])]

\* solidityPack(['uint8','address','uint256','uint256','bytes'],
\*              [operation, to, value, dataLength, data])  (SafeContext.tsx 387-398)
EncodeMultisendEntry(tx) ==
    ToBytes(tx.operation, 1) \o tx.to \o ToBytes(tx.value, WordBytes)
        \o ToBytes(Len(tx.data), WordBytes) \o tx.data

\* Mutant: the encoded entries concatenated last to first.
RECURSIVE HexConcat_Reversed(_)
HexConcat_Reversed(parts) ==
    IF parts = <<>> THEN <<>> ELSE HexConcat_Reversed(Tail(parts)) \o parts[1]

\* hexConcat(encodedTxns)  (SafeContext.tsx 401)
RECURSIVE HexConcat(_)
HexConcat(parts) ==
    IF parts = <<>> THEN <<>> ELSE parts[1] \o HexConcat(Tail(parts))

\* encodeFunctionData('multiSend', [packed]): selector, the offset of the bytes
\* argument, its length, and its bytes right-padded to whole words.
EncodeMultiSendCall(packed) ==
    SelMultiSend \o ToBytes(WordBytes, WordBytes) \o ToBytes(Len(packed), WordBytes)
        \o packed \o Repeat(0, (WordBytes - (Len(packed) % WordBytes)) % WordBytes)

\* createMultisendData(transactions)  (SafeContext.tsx 385-409)
createMultisendData(transactions) ==
    EncodeMultiSendCall(
        HexConcat([k \in 1..Len(transactions) |-> EncodeMultisendEntry(transactions[k])]))

\* Mutant: every batch, a single call included, goes through multisend.
AggregateTransactions_AlwaysMultisend(transactions) ==
    [finalTo |-> SAFE_MULTISEND, finalData |-> createMultisendData(transactions),
     finalOperation |-> 1]

\* Aggregate transactions: single tx or multisend (SafeContext.tsx 464-478).
AggregateTransactions(transactions) ==
    IF Len(transactions) = 1
    THEN [finalTo |-> transactions[1].to, finalData |-> transactions[1].data,
          finalOperation |-> 0]
    ELSE [finalTo |-> SAFE_MULTISEND, finalData |-> createMultisendData(transactions),
          finalOperation |-> 1]

(***************************************************************************)
(* approveAll from the nonce answer to the body the proxy forwards to the  *)
(* relayer (SafeContext.tsx 456-567, vite proxy part_000 191-238)          *)
(***************************************************************************)

\* The JavaScript values met on the way: undefined, a number, a string.
Undefined == [t |-> "undefined", n |-> 0, chars |-> <<>>]
JsNumber(n) == [t |-> "number", n |-> n, chars |-> <<>>]
JsString(chars) == [t |-> "string", n |-> 0, chars |-> chars]

Digits == <<"0", "1", "2", "3", "4", "5", "6", "7", "8", "9">>

\* String(n) of a non-negative integer below 1000: its decimal digits.
NumberToString(n) ==
    IF n < 10 THEN <<Digits[n + 1]>>
    ELSE IF n < 100 THEN <<Digits[(n \div 10) + 1], Digits[(n % 10) + 1]>>
    ELSE <<Digits[(n \div 100) + 1], Digits[((n \div 10) % 10) + 1], Digits[(n % 10) + 1]>>

DigitValue(c) == CHOOSE d \in 0..9 : Digits[d + 1] = c

\* The integer a string of decimal digits denotes.
RECURSIVE ParseDecimal(_)
ParseDecimal(chars) ==
    IF chars = <<>> THEN 0
    ELSE ParseDecimal(SubSeq(chars, 1, Len(chars) - 1)) * 10 + DigitValue(chars[Len(chars)])

\* String(v)
StringOf(v) ==
    IF v.t = "string" THEN v
    ELSE IF v.t = "number" THEN JsString(NumberToString(v.n))
    ELSE JsString(<<"u", "n", "d", "e", "f", "i", "n", "e", "d">>)

\* The values that || passes over: undefined, 0 and the empty string.
Falsy(v) == v.t = "undefined" \/ (v.t = "number" /\ v.n = 0) \/ (v.t = "string" /\ v.chars = <<>>)

\* Mutant: the nonce is used as the relay sent it.
NonceOf_AsSent(nonce) == IF Falsy(nonce) THEN JsString(<<"0">>) ELSE nonce

\* const nonce = String(nonceData.nonce || '0') (line 461)
NonceOf(nonce) == StringOf(IF Falsy(nonce) THEN JsString(<<"0">>) ELSE nonce)

\* ethers.BigNumber.from(nonce) (line 514)
BigNumberFrom(v) == IF v.t = "number" THEN v.n ELSE ParseDecimal(v.chars)

\* JSON.stringify of a number or a string, and JSON.parse of that text.
JsonStringify(v) ==
    IF v.t = "string" THEN <<"\"">> \o v.chars \o <<"\"">> ELSE NumberToString(v.n)

JsonParse(text) ==
    IF text[1] = "\"" THEN JsString(SubSeq(text, 2, Len(text) - 1))
    ELSE JsNumber(ParseDecimal(text))

\* The 65 bytes signer.signMessage answers with: r, s and the recovery id.
RawSignature(r, s, v) == ToBytes(r, WordBytes) \o ToBytes(s, WordBytes) \o <<v>>

\* ethers.utils.splitSignature of 65 bytes (line 533): a recovery id of 0 or 1
\* is read as 27 or 28, any other below 27 is refused.
splitSignature(signature) ==
    LET v == signature[2 * WordBytes + 1] IN
    [r |-> SubSeq(signature, 1, WordBytes),
     s |-> SubSeq(signature, WordBytes + 1, 2 * WordBytes),
     v |-> IF v = 0 \/ v = 1 THEN v + 27 ELSE v,
     valid |-> v \in {0, 1} \/ v >= 27]

\* Mutant: the recovery id is packed as the signer gave it.
AdjustV_Unchanged(v) == v

\* adjustedV (lines 534-537)
AdjustV(v) == IF v = 27 \/ v = 28 THEN v + 4 ELSE v

\* solidityPack(['uint256', 'uint256', 'uint8'], [sig.r, sig.s, adjustedV]) (538-541)
PackSignature(sig) == sig.r \o sig.s \o <<AdjustV(sig.v) % 256>>

ZERO_ADDRESS == Repeat(0, AddressBytes)

POLYGON_CHAIN_ID == 137

\* Mutant: the struct is always signed as a plain call.
SafeTxMessage_AlwaysCall(final, nonce) ==
    [to |-> final.finalTo, value |-> 0, data |-> final.finalData,
     operation |-> 0, safeTxGas |-> 0, baseGas |-> 0, gasPrice |-> 0,
     gasToken |-> ZERO_ADDRESS, refundReceiver |-> ZERO_ADDRESS,
     nonce |-> BigNumberFrom(nonce)]

\* safeTxMessage, the SafeTx struct whose hash is signed (lines 504-515).
SafeTxMessage(final, nonce) ==
    [to |-> final.finalTo, value |-> 0, data |-> final.finalData,
     operation |-> final.finalOperation, safeTxGas |-> 0, baseGas |-> 0,
     gasPrice |-> 0, gasToken |-> ZERO_ADDRESS, refundReceiver |-> ZERO_ADDRESS,
     nonce |-> BigNumberFrom(nonce)]

\* safeTxDomain (lines 484-487).
SafeTxDomain(safe) == [chainId |-> POLYGON_CHAIN_ID, verifyingContract |-> safe]

\* The body of POST /api/safe/execute (lines 550-566); the nonce is kept as
\* the JSON text that travels.
ExecuteBody(from, safe, final, nonce, packedSig) ==
    [from |-> from, to |-> final.finalTo, proxyWallet |-> safe,
     data |-> final.finalData, nonce |-> JsonStringify(nonce),
     signature |-> packedSig,
     signatureParams |->
        [gasPrice |-> <<"0">>, operation |-> NumberToString(final.finalOperation),
         safeTxnGas |-> <<"0">>, baseGas |-> <<"0">>,
         gasToken |-> ZERO_ADDRESS, refundReceiver |-> ZERO_ADDRESS],
     metadata |-> "Set token approvals"]

\* The relayer request the proxy writes from the parsed body: every field
\* as received, nonce: String(nonce), the default signatureParams only when
\* the body has none, type 'SAFE' (part_000 202-235).
ProxyForward(payload) ==
    [from |-> payload.from, to |-> payload.to, proxyWallet |-> payload.proxyWallet,
     data |-> payload.data,
     nonce |-> JsonStringify(StringOf(JsonParse(payload.nonce))),
     signature |-> payload.signature,
     signatureParams |->
        IF "signatureParams" \in DOMAIN payload
        THEN payload.signatureParams
        ELSE [gasPrice |-> <<"0">>, operation |-> <<"0">>, safeTxnGas |-> <<"0">>,
              baseGas |-> <<"0">>, gasToken |-> ZERO_ADDRESS,
              refundReceiver |-> ZERO_ADDRESS],
     type |-> "SAFE",
     metadata |-> payload.metadata]

NoFinal == [finalTo |-> <<>>, finalData |-> <<>>, finalOperation |-> 0]

WireIdle ==
    [stage |-> "idle", nonceData |-> Undefined, signature |-> <<>>,
     nonce |-> Undefined, signedNonce |-> -1, packedSig |-> <<>>,
     from |-> "none", safeAddress |-> "none", final |-> NoFinal,
     safeTx |-> SafeTxMessage(NoFinal, JsNumber(0)),
     domain |-> SafeTxDomain("none"),
     payload |-> [nonce |-> <<>>, signature |-> <<>>],
     forwarded |-> [nonce |-> <<>>, signature |-> <<>>]]

(***************************************************************************)
(* SafeProvider: its state, its effects, deploySafe and approveAll, with   *)
(* the relay and the chain as the environment (SafeContext.tsx 93-624)     *)
(***************************************************************************)

PollIdle == [pc |-> "idle", i |-> 0, requests |-> 0, log |-> <<>>,
             outcome |-> "running", tx |-> "none"]

BuildIdle == [stage |-> "idle", approvals |-> <<>>, pending |-> <<>>,
              transactions |-> <<>>, finalTo |-> <<>>, finalData |-> <<>>,
              finalOperation |-> 0]

Null == "null"

\* The connected owner (EOA) of the session.
Owner == "0xOwner"

\* deriveSafe(address, SafeFactory) of the relayer client library: the wallet
\* address of an owner, one per owner.
deriveSafe(owner) == <<"safe", owner>>

\* The invocations in progress: two slots, each used by one call.
Tasks == {1, 2}

\* The attempt budget of the polls inside deploySafe and approveAll (the code
\* passes no maxPolls there, so 40).
FlowMaxPolls == 2

\* No answer yet to the nonce request of an invocation.
NoAnswer == [t |-> "none", n |-> 0, chars |-> <<>>]

NewTask ==
    [kind |-> "none", pc |-> "idle", outcome |-> "none",
     cDeployed |-> FALSE, cApprovals |-> <<>>,
     pending |-> <<>>, nonceData |-> NoAnswer, nonce |-> -1, finalTo |-> <<>>, finalOperation |-> -1,
     txId |-> 0, poll |-> PollIdle, polled |-> "none",
     alreadyDeployed |-> "none",
     events |-> <<>>,
     start |-> [connected |-> FALSE, deployed |-> FALSE, granted |-> {}]]

\* The chain states a session can start from: a wallet that is not deployed
\* holds no approval.
InitialChains ==
    {[deployed |-> FALSE, granted |-> {}, nonce |-> 0],
     [deployed |-> TRUE, granted |-> ReqIds \ {6}, nonce |-> 2],
     [deployed |-> TRUE, granted |-> ReqIds, nonce |-> 2]}

\* No deployment check is being followed, and no order is being placed.
CheckIdle ==
    [stage |-> "idle", relayResp |-> "none", codeResp |-> "none",
     fellBack |-> FALSE, result |-> FALSE]

OrderIdle ==
    [pc |-> "idle", outcome |-> "none", cDeployed |-> FALSE, cAllApproved |-> FALSE,
     cApprovals |-> <<>>, at |-> [deployed |-> FALSE, granted |-> {}]]

ReactInit ==
    /\ address = Null
    /\ safeAddress = Null
    /\ isSafeDeployed = FALSE
    /\ isDeployingSafe = FALSE
    /\ approvals = <<>>
    /\ isCheckingApprovals = FALSE
    /\ isApproving = FALSE
    /\ effects = [deployment |-> FALSE, approvals |-> FALSE]

MainInit ==
    /\ ReactInit
    /\ tasks = [t \in Tasks |-> NewTask]
    /\ chain \in InitialChains
    /\ relayTxs = <<>>
    /\ poll = PollIdle
    /\ build = BuildIdle
    /\ wire = WireIdle
    /\ check = CheckIdle
    /\ order = OrderIdle

\* The provider at rest, for the specifications of the single functions.
MainIdle ==
    /\ ReactInit
    /\ tasks = [t \in Tasks |-> NewTask]
    /\ chain = [deployed |-> FALSE, granted |-> {}, nonce |-> 0]
    /\ relayTxs = <<>>
    /\ check = CheckIdle
    /\ order = OrderIdle

\* checkSafeDeployed (SafeContext.tsx 130-153): the relay's answer when the
\* request returns a body (data.deployed === true), else, when it throws, the
\* chain's code when provider.getCode answers, else false.
CheckResponses == {"ok", "errorBody", "throws"}
CodeResponses == {"ok", "throws"}

checkSafeDeployed(relayResp, codeResp) ==
    IF safeAddress = Null THEN FALSE
    ELSE IF relayResp = "ok" THEN chain.deployed
    ELSE IF relayResp = "errorBody" THEN FALSE
    ELSE IF codeResp = "ok" THEN chain.deployed
    ELSE FALSE

\* The effect at 374-379 runs checkApprovals when isSafeDeployed turns true.
AutoCheck(deployedNow) ==
    IF deployedNow /\ ~isSafeDeployed /\ safeAddress # Null
    THEN [effects EXCEPT !.approvals = TRUE]
    ELSE effects

Log(task, e) == [task EXCEPT !.events = Append(@, e)]

Finish(task, how) == [task EXCEPT !.pc = "done", !.outcome = how]

\* The requirement indexes a list of approval statuses names.
IdsOf(statuses) ==
    {k \in ReqIds : \E j \in 1..Len(statuses) : statuses[j].name = Requirements[k].name}

\* approveAll from line 424 to the nonce request at 458.
ApproveFilter(task) ==
    LET pending == FilterPending(task.cApprovals) IN
    IF Len(pending) = 0
    THEN Finish(task, "returned")
    ELSE Log([task EXCEPT !.pending = pending, !.pc = "A_nonce"], "nonce")

\* deploySafe returns normally: to its caller, approveAll, or to the UI.
ReturnFromDeploy(task) ==
    IF task.kind = "approveAll" THEN ApproveFilter(task) ELSE Finish(task, "returned")

\* setIsApproving(true) at line 430 is reached exactly when the nonce is requested.
ApprovingAfter(task) == IF task.pc = "A_nonce" THEN TRUE ELSE isApproving

CanStart(t) ==
    /\ tasks[t].pc = "idle"
    /\ \A u \in Tasks : u < t => tasks[u].pc # "idle"

\* The wallet provider connects an owner; the effects at 111-127 and 155-168
\* derive the wallet address and start the deployment check.
Connect ==
    /\ address = Null
    /\ address' = Owner
    /\ safeAddress' = deriveSafe(Owner)
    /\ effects' = [effects EXCEPT !.deployment = TRUE]
    /\ UNCHANGED <<isSafeDeployed, isDeployingSafe, approvals, isCheckingApprovals,
                   isApproving, tasks, chain, relayTxs, poll, build, wire, check, order>>

\* checkDeployment (155-168): setIsSafeDeployed(await checkSafeDeployed()).
EffectDeploymentChecked ==
    /\ effects.deployment
    /\ \E relayResp \in CheckResponses, codeResp \in CodeResponses :
        LET deployed == checkSafeDeployed(relayResp, codeResp) IN
        /\ isSafeDeployed' = deployed
        /\ effects' = [AutoCheck(deployed) EXCEPT !.deployment = FALSE]
        /\ isCheckingApprovals' = (isCheckingApprovals \/ AutoCheck(deployed).approvals)
    /\ UNCHANGED <<address, safeAddress, isDeployingSafe, approvals, isApproving,
                   tasks, chain, relayTxs, poll, build, wire, check, order>>

\* checkApprovals called from the UI: the "Refresh Approvals" button, disabled
\* while isCheckingApprovals || !isSafeDeployed (WalletModal.tsx 584-590).
CheckApprovalsCall ==
    /\ safeAddress # Null
    /\ isSafeDeployed /\ ~isCheckingApprovals
    /\ ~effects.approvals
    /\ effects' = [effects EXCEPT !.approvals = TRUE]
    /\ isCheckingApprovals' = TRUE
    /\ UNCHANGED <<address, safeAddress, isSafeDeployed, isDeployingSafe, approvals,
                   isApproving, tasks, chain, relayTxs, poll, build, wire, check, order>>

\* checkApprovals (324-372) completes: the seven reads answered, or one threw.
EffectApprovalsChecked ==
    /\ effects.approvals
    /\ \E ok \in BOOLEAN :
        approvals' = IF ok THEN ApprovalStatuses(chain.granted) ELSE approvals
    /\ effects' = [effects EXCEPT !.approvals = FALSE]
    /\ isCheckingApprovals' = FALSE
    /\ UNCHANGED <<address, safeAddress, isSafeDeployed, isDeployingSafe, isApproving,
                   tasks, chain, relayTxs, poll, build, wire, check, order>>

\* What the chain holds when an invocation starts.
StartedOn == [connected |-> address # Null, deployed |-> chain.deployed,
              granted |-> chain.granted]

\* deploySafe() is entered (227-234) in a fresh slot.
DeploySafeEntered(task) ==
    LET called == [task EXCEPT !.kind = "deploySafe", !.start = StartedOn] IN
    IF address = Null \/ safeAddress = Null
    THEN Finish(called, "returned")
    ELSE [called EXCEPT !.pc = "D_check"]

\* approveAll() is entered (412-431) in a fresh slot, by a callback created
\* in a render that held isSafeDeployed = deployed and approvals = statuses.
ApproveAllEntered(task, deployed, statuses) ==
    LET called == [task EXCEPT !.kind = "approveAll", !.cDeployed = deployed,
                               !.cApprovals = statuses, !.start = StartedOn] IN
    IF address = Null \/ safeAddress = Null THEN Finish(called, "returned")
    ELSE IF ~deployed THEN [called EXCEPT !.pc = "D_check"]
    ELSE ApproveFilter(called)

\* deploySafe() is called (227-234).
StartDeploySafe(t) ==
    /\ CanStart(t)
    /\ tasks' = [tasks EXCEPT ![t] = DeploySafeEntered(tasks[t])]
    /\ UNCHANGED <<react, chain, relayTxs, poll, build, wire, check, order>>

\* approveAll() is called (412-431): the callback reads the isSafeDeployed and
\* approvals of the render it was created in.
StartApproveAll(t) ==
    /\ CanStart(t)
    /\ LET next == ApproveAllEntered(tasks[t], isSafeDeployed, approvals)
       IN /\ tasks' = [tasks EXCEPT ![t] = next]
          /\ isApproving' = ApprovingAfter(next)
    /\ UNCHANGED <<address, safeAddress, isSafeDeployed, isDeployingSafe, approvals,
                   isCheckingApprovals, effects, chain, relayTxs, poll, build, wire,
                   check, order>>

\* Mutant: the signature is requested whatever the first check says.
AfterDeployCheck_AlwaysSign(task, deployed) ==
    Log([task EXCEPT !.alreadyDeployed = IF deployed THEN "yes" ELSE "no",
                     !.pc = "D_sign"], "sign")

\* deploySafe 234-257 after alreadyDeployed is known: return, or go on to the
\* signature request.
AfterDeployCheck(task, deployed) ==
    IF deployed
    THEN ReturnFromDeploy([task EXCEPT !.alreadyDeployed = "yes"])
    ELSE Log([task EXCEPT !.alreadyDeployed = "no", !.pc = "D_sign"], "sign")

\* deploySafe 234-257: the first deployment check answers.
DeployChecked(t) ==
    /\ tasks[t].pc = "D_check"
    /\ \E relayResp \in CheckResponses, codeResp \in CodeResponses :
        LET deployed == checkSafeDeployed(relayResp, codeResp)
            next == AfterDeployCheck(Log(tasks[t], "checkDeployed"), deployed)
        IN /\ tasks' = [tasks EXCEPT ![t] = next]
           /\ isSafeDeployed' = (isSafeDeployed \/ deployed)
           /\ effects' = AutoCheck(deployed)
           /\ isCheckingApprovals' = (isCheckingApprovals \/ AutoCheck(deployed).approvals)
           /\ isDeployingSafe' = (isDeployingSafe \/ ~deployed)
           /\ isApproving' = ApprovingAfter(next)
    /\ UNCHANGED <<address, safeAddress, approvals, chain, relayTxs, poll, build, wire, check, order>>

\* Mutant: a declined signature is asked for again.
Declined_AsksAgain(task) == Log(Log(task, "declined"), "sign")

\* The owner declines a signature request: the await throws, the catch blocks
\* (315-317, 593-595) rethrow and the invocation ends.
Declined(task) == Finish(Log(task, "declined"), "threw")

\* deploySafe 257-261: the owner signs the CreateProxy message, or declines.
DeploySigned(t) ==
    /\ tasks[t].pc = "D_sign"
    /\ \E signed \in BOOLEAN :
        IF signed
        THEN /\ tasks' = [tasks EXCEPT ![t] = Log([@ EXCEPT !.pc = "D_post"], "deploy")]
             /\ UNCHANGED isDeployingSafe
        ELSE /\ tasks' = [tasks EXCEPT ![t] = Declined(@)]
             /\ isDeployingSafe' = FALSE
    /\ UNCHANGED <<address, safeAddress, isSafeDeployed, approvals, isCheckingApprovals,
                   isApproving, effects, chain, relayTxs, poll, build, wire, check, order>>

\* Strip the log of a poll run: the flows keep no history of it.
NoLog(p) == [p EXCEPT !.log = <<>>]

\* deploySafe 261-296: the answer to POST /api/safe/deploy.
PostResponses == {"id", "noId", "error"}

DeployPosted(t) ==
    /\ tasks[t].pc = "D_post"
    /\ \E resp \in PostResponses :
        IF resp = "error"
        THEN /\ tasks' = [tasks EXCEPT ![t] = Finish(@, "threw")]
             /\ isDeployingSafe' = FALSE
             /\ UNCHANGED relayTxs
        ELSE /\ relayTxs' = Append(relayTxs, [kind |-> "deploy", nonce |-> -1, calls |-> {},
                                              state |-> TX_STATE.PENDING, by |-> t])
             /\ tasks' = [tasks EXCEPT ![t] =
                    IF resp = "id"
                    THEN [@ EXCEPT !.pc = "D_poll", !.txId = Len(relayTxs) + 1,
                                   !.poll = PollStart(FlowMaxPolls)]
                    ELSE [@ EXCEPT !.pc = "D_verify"]]
             /\ UNCHANGED isDeployingSafe
    /\ UNCHANGED <<address, safeAddress, isSafeDeployed, approvals, isCheckingApprovals,
                   isApproving, effects, chain, poll, build, wire, check, order>>

\* Mutant: deploySafe rethrows the error of its poll, as approveAll does.
AfterPoll_DeployRethrows(task) ==
    IF task.poll.pc # "done" THEN task
    ELSE LET ended == [task EXCEPT !.polled = task.poll.outcome, !.poll = PollIdle] IN
         IF task.poll.outcome # "success" THEN Finish(ended, "threw")
         ELSE IF task.pc = "D_poll" THEN [ended EXCEPT !.pc = "D_verify"]
         ELSE Log([ended EXCEPT !.pc = "A_check"], "checkApprovals")

\* Mutant: approveAll takes the relay's report of success for the approvals.
AfterPoll_TrustsRelay(task) ==
    IF task.poll.pc # "done" THEN task
    ELSE LET ended == [task EXCEPT !.polled = task.poll.outcome, !.poll = PollIdle] IN
         IF task.pc = "D_poll" THEN [ended EXCEPT !.pc = "D_verify"]
         ELSE IF task.poll.outcome = "success" THEN Finish(ended, "returned")
         ELSE Finish(ended, "threw")

\* What follows a poll run that ended: in deploySafe (296-306) any error is
\* caught and followed by a 5 s wait and the verifying check; in approveAll
\* (588-598) it is rethrown.
AfterPoll(task) ==
    IF task.poll.pc # "done" THEN task
    ELSE LET ended == [task EXCEPT !.polled = task.poll.outcome, !.poll = PollIdle] IN
         IF task.pc = "D_poll" THEN [ended EXCEPT !.pc = "D_verify"]
         ELSE IF task.poll.outcome = "success"
         THEN Log([ended EXCEPT !.pc = "A_check"], "checkApprovals")
         ELSE Finish(ended, "threw")

\* One iteration of the poll: the status request, its answer (the relay's
\* state of the transaction, or a request error) and, after a state that is
\* not terminal, the wait of one interval.
PollIteration(p, resp) ==
    LET q == PollRespond(PollFetch(p), FlowMaxPolls, resp) IN
    NoLog(IF q.pc = "sleep" THEN PollWake(q, FlowMaxPolls) ELSE q)

TaskPollAttempt(t) ==
    /\ tasks[t].pc \in {"D_poll", "A_poll"}
    /\ tasks[t].poll.pc = "fetch"
    /\ \E resp \in {relayTxs[tasks[t].txId].state, RequestError} :
        LET next == AfterPoll([tasks[t] EXCEPT !.poll = PollIteration(@, resp)]) IN
        /\ tasks' = [tasks EXCEPT ![t] = next]
        /\ isApproving' = IF tasks[t].pc = "A_poll" /\ next.pc = "done"
                          THEN FALSE ELSE isApproving
        /\ isCheckingApprovals' = (isCheckingApprovals \/ next.pc = "A_check")
    /\ UNCHANGED <<address, safeAddress, isSafeDeployed, isDeployingSafe, approvals,
                   effects, chain, relayTxs, poll, build, wire, check, order>>

\* deploySafe 305-320: the verifying deployment check answers; isSafeDeployed
\* is set to true whatever it says.
DeployVerified(t) ==
    /\ tasks[t].pc = "D_verify"
    /\ \E relayResp \in CheckResponses, codeResp \in CodeResponses :
        LET deployed == checkSafeDeployed(relayResp, codeResp)
            next == ReturnFromDeploy(Log(tasks[t], "checkDeployed"))
        IN /\ tasks' = [tasks EXCEPT ![t] = next]
           /\ isApproving' = ApprovingAfter(next)
    /\ isSafeDeployed' = TRUE
    /\ effects' = AutoCheck(TRUE)
    /\ isCheckingApprovals' = (isCheckingApprovals \/ AutoCheck(TRUE).approvals)
    /\ isDeployingSafe' = FALSE
    /\ UNCHANGED <<address, safeAddress, approvals, chain, relayTxs, poll, build, wire, check, order>>

\* approveAll 456-528: the answer to GET /api/safe/nonce; String(nonceData.nonce
\* || '0') is 0 when the body carries no nonce.
NonceResponses == {"ok", "errorBody", "throws"}

\* The nonce of the signed struct (lines 461 and 514).
SignedNonce(nonceData) == BigNumberFrom(NonceOf(nonceData))

\* nonceData.nonce of the answer: the wallet's nonce at the relay, or nothing
\* in the error body the proxy writes (part_000 123-147).
NonceData(resp) ==
    IF resp = "ok" THEN JsString(NumberToString(chain.nonce)) ELSE Undefined

ApproveNonce(t) ==
    /\ tasks[t].pc = "A_nonce"
    /\ \E resp \in NonceResponses :
        IF resp = "throws"
        THEN /\ tasks' = [tasks EXCEPT ![t] = Finish(@, "threw")]
             /\ isApproving' = FALSE
        ELSE /\ LET final == AggregateTransactions(BuildTransactions(tasks[t].pending)) IN
                tasks' = [tasks EXCEPT ![t] =
                    Log([@ EXCEPT !.nonceData = NonceData(resp),
                                  !.nonce = SignedNonce(NonceData(resp)),
                                  !.finalTo = final.finalTo,
                                  !.finalOperation = final.finalOperation,
                                  !.pc = "A_sign"], "sign")]
             /\ UNCHANGED isApproving
    /\ UNCHANGED <<address, safeAddress, isSafeDeployed, isDeployingSafe, approvals,
                   isCheckingApprovals, effects, chain, relayTxs, poll, build, wire, check, order>>

\* approveAll 528-547: the owner signs the hash, or declines.
ApproveSigned(t) ==
    /\ tasks[t].pc = "A_sign"
    /\ \E signed \in BOOLEAN :
        IF signed
        THEN /\ tasks' = [tasks EXCEPT ![t] = Log([@ EXCEPT !.pc = "A_post"], "execute")]
             /\ UNCHANGED isApproving
        ELSE /\ tasks' = [tasks EXCEPT ![t] = Declined(@)]
             /\ isApproving' = FALSE
    /\ UNCHANGED <<address, safeAddress, isSafeDeployed, isDeployingSafe, approvals,
                   isCheckingApprovals, effects, chain, relayTxs, poll, build, wire, check, order>>

\* approveAll 547-592: the answer to POST /api/safe/execute.
ApprovePosted(t) ==
    /\ tasks[t].pc = "A_post"
    /\ \E resp \in PostResponses :
        IF resp = "error"
        THEN /\ tasks' = [tasks EXCEPT ![t] = Finish(@, "threw")]
             /\ isApproving' = FALSE
             /\ UNCHANGED <<relayTxs, isCheckingApprovals>>
        ELSE /\ relayTxs' = Append(relayTxs,
                    [kind |-> "execute", nonce |-> tasks[t].nonce,
                     calls |-> IdsOf(tasks[t].pending),
                     state |-> TX_STATE.PENDING, by |-> t])
             /\ tasks' = [tasks EXCEPT ![t] =
                    IF resp = "id"
                    THEN [@ EXCEPT !.pc = "A_poll", !.txId = Len(relayTxs) + 1,
                                   !.poll = PollStart(FlowMaxPolls)]
                    ELSE Log([@ EXCEPT !.pc = "A_check"], "checkApprovals")]
             /\ isCheckingApprovals' = (isCheckingApprovals \/ resp = "noId")
             /\ UNCHANGED isApproving
    /\ UNCHANGED <<address, safeAddress, isSafeDeployed, isDeployingSafe, approvals,
                   effects, chain, poll, build, wire, check, order>>

\* approveAll 592-598: its checkApprovals completes (or its reads threw).
ApproveChecked(t) ==
    /\ tasks[t].pc = "A_check"
    /\ \E ok \in BOOLEAN :
        approvals' = IF ok THEN ApprovalStatuses(chain.granted) ELSE approvals
    /\ tasks' = [tasks EXCEPT ![t] = Finish(@, "returned")]
    /\ isCheckingApprovals' = FALSE
    /\ isApproving' = FALSE
    /\ UNCHANGED <<address, safeAddress, isSafeDeployed, isDeployingSafe, effects,
                   chain, relayTxs, poll, build, wire, check, order>>

\* The relay lands a pending transaction on the chain: a deployment creates
\* the wallet; an execution runs in a deployed wallet whose nonce it carries,
\* grants its approvals and consumes the nonce, and fails otherwise.
RelayMine(id) ==
    /\ relayTxs[id].state = TX_STATE.PENDING
    /\ LET tx == relayTxs[id]
           lands == tx.kind = "deploy" \/ (chain.deployed /\ tx.nonce = chain.nonce)
       IN /\ relayTxs' = [relayTxs EXCEPT ![id].state =
                            IF lands THEN TX_STATE.MINED ELSE TX_STATE.FAILED]
          /\ chain' = IF ~lands THEN chain
                      ELSE IF tx.kind = "deploy" THEN [chain EXCEPT !.deployed = TRUE]
                      ELSE [chain EXCEPT !.granted = @ \cup tx.calls, !.nonce = @ + 1]
    /\ UNCHANGED <<react, tasks, poll, build, wire, check, order>>

\* The relay gives a pending transaction up.
RelayFail(id) ==
    /\ relayTxs[id].state = TX_STATE.PENDING
    /\ relayTxs' = [relayTxs EXCEPT ![id].state = TX_STATE.FAILED]
    /\ UNCHANGED <<react, tasks, chain, poll, build, wire, check, order>>

\* The steps of the provider's own checks and of the relay.
ProviderStep ==
    \/ EffectDeploymentChecked
    \/ CheckApprovalsCall
    \/ EffectApprovalsChecked
    \/ \E id \in 1..Len(relayTxs) : RelayMine(id) \/ RelayFail(id)

\* The steps of an invocation under way in slot t.
TaskRun(t) ==
    \/ DeployChecked(t)
    \/ DeploySigned(t)
    \/ DeployPosted(t)
    \/ TaskPollAttempt(t)
    \/ DeployVerified(t)
    \/ ApproveNonce(t)
    \/ ApproveSigned(t)
    \/ ApprovePosted(t)
    \/ ApproveChecked(t)

\* The steps of the invocation in slot t.
TaskStep(t) ==
    \/ StartDeploySafe(t)
    \/ StartApproveAll(t)
    \/ TaskRun(t)

Next ==
    \/ Connect
    \/ ProviderStep
    \/ \E t \in Tasks : TaskStep(t)

Spec == MainInit /\ [][Next]_vars

---------------------------------------------------------------------------
(* PollSpec: one run of pollTransactionStatus against every response sequence *)

PollInit ==
    /\ poll = PollStart(MaxPolls)
    /\ build = BuildIdle
    /\ wire = WireIdle
    /\ MainIdle

PollDoFetch ==
    /\ poll.pc = "fetch"
    /\ poll' = PollFetch(poll)
    /\ UNCHANGED <<build, wire, check, order, mainVars>>

PollDoRespond ==
    /\ poll.pc = "await"
    /\ \E resp \in PollResponses : poll' = PollRespond(poll, MaxPolls, resp)
    /\ UNCHANGED <<build, wire, check, order, mainVars>>

PollDoWake ==
    /\ poll.pc = "sleep"
    /\ poll' = PollWake(poll, MaxPolls)
    /\ UNCHANGED <<build, wire, check, order, mainVars>>

PollNext == PollDoFetch \/ PollDoRespond \/ PollDoWake

PollSpec == PollInit /\ [][PollNext]_vars

---------------------------------------------------------------------------
(* BuildSpec: approveAll's construction of the approval transaction, from  *)
(* every value the approvals state can hold (SafeContext.tsx 424-478)      *)

\* The values of the approvals state: [] before any check, else the seven
\* statuses of the last check.
ApprovalsValues == {<<>>} \cup {ApprovalStatuses(g) : g \in SUBSET ReqIds}

BuildInit ==
    /\ poll = PollIdle
    /\ wire = WireIdle
    /\ MainIdle
    /\ \E a \in ApprovalsValues : build = [BuildIdle EXCEPT !.stage = "start", !.approvals = a]

\* const pending = approvals.filter(...); if (pending.length === 0) return
BuildFilter ==
    /\ build.stage = "start"
    /\ LET pending == FilterPending(build.approvals) IN
        build' = [build EXCEPT !.pending = pending,
                               !.stage = IF Len(pending) = 0 THEN "returned" ELSE "pending"]
    /\ UNCHANGED <<poll, wire, check, order, mainVars>>

\* const transactions = pending.map(...)
BuildMap ==
    /\ build.stage = "pending"
    /\ build' = [build EXCEPT !.transactions = BuildTransactions(build.pending),
                              !.stage = "mapped"]
    /\ UNCHANGED <<poll, wire, check, order, mainVars>>

\* finalTo, finalData, finalOperation
BuildAggregate ==
    /\ build.stage = "mapped"
    /\ LET final == AggregateTransactions(build.transactions) IN
        build' = [build EXCEPT !.finalTo = final.finalTo, !.finalData = final.finalData,
                               !.finalOperation = final.finalOperation,
                               !.stage = "aggregated"]
    /\ UNCHANGED <<poll, wire, check, order, mainVars>>

BuildNext == BuildFilter \/ BuildMap \/ BuildAggregate

BuildSpec == BuildInit /\ [][BuildNext]_vars

---------------------------------------------------------------------------
(* WireSpec: approveAll from the nonce answer to the forwarded body, for   *)
(* every nonce answer and signature drawn below                            *)

MaxWireNonce == 11

\* The nonce field of the body GET /api/safe/nonce answers with: absent, a
\* JSON number or a string of decimal digits.
NonceAnswers ==
    {Undefined} \cup {JsNumber(n) : n \in 0..MaxWireNonce}
                \cup {JsString(NumberToString(n)) : n \in 0..MaxWireNonce}

RawRs == {1, 258}
RawSs == {2, 515}
RawVs == {0, 1, 5, 27, 28, 31}

\* The connected wallets and the approvals already granted on chain that the
\* submissions are built for: one erc20 call, one erc1155 call, a multisend.
WireOwners == {Owner, "0xOther"}
WireGranted == {ReqIds \ {1}, ReqIds \ {Len(Requirements)}, {}}

WireInit ==
    /\ poll = PollIdle
    /\ build = BuildIdle
    /\ MainIdle
    /\ \E nonceData \in NonceAnswers, r \in RawRs, s \in RawSs, v \in RawVs,
          owner \in WireOwners, granted \in WireGranted :
        wire = [WireIdle EXCEPT
                  !.stage = "start", !.nonceData = nonceData,
                  !.signature = RawSignature(r, s, v),
                  !.from = owner, !.safeAddress = deriveSafe(owner),
                  !.final = AggregateTransactions(BuildTransactions(
                                FilterPending(ApprovalStatuses(granted))))]

\* Lines 461 and 484-522: the nonce string, the signing domain and the
\* struct whose hash is signed.
WireNonce ==
    /\ wire.stage = "start"
    /\ wire' = [wire EXCEPT !.nonce = NonceOf(wire.nonceData),
                            !.signedNonce = BigNumberFrom(NonceOf(wire.nonceData)),
                            !.domain = SafeTxDomain(wire.safeAddress),
                            !.safeTx = SafeTxMessage(wire.final, NonceOf(wire.nonceData)),
                            !.stage = "hashed"]
    /\ UNCHANGED <<poll, build, check, order, mainVars>>

\* Lines 528-541: the signature is split and packed; splitSignature throws
\* on a recovery id it does not know.
WirePack ==
    /\ wire.stage = "hashed"
    /\ LET sig == splitSignature(wire.signature) IN
        wire' = IF sig.valid
                THEN [wire EXCEPT !.packedSig = PackSignature(sig), !.stage = "packed"]
                ELSE [wire EXCEPT !.stage = "threw"]
    /\ UNCHANGED <<poll, build, check, order, mainVars>>

\* Lines 547-567: the body of POST /api/safe/execute.
WirePost ==
    /\ wire.stage = "packed"
    /\ wire' = [wire EXCEPT !.payload = ExecuteBody(wire.from, wire.safeAddress,
                                                    wire.final, wire.nonce,
                                                    wire.packedSig),
                            !.stage = "posted"]
    /\ UNCHANGED <<poll, build, check, order, mainVars>>

\* part_000 191-238: the proxy parses the body and writes the relayer's.
WireForward ==
    /\ wire.stage = "posted"
    /\ wire' = [wire EXCEPT !.forwarded = ProxyForward(wire.payload), !.stage = "forwarded"]
    /\ UNCHANGED <<poll, build, check, order, mainVars>>

WireNext == WireNonce \/ WirePack \/ WirePost \/ WireForward

WireSpec == WireInit /\ [][WireNext]_vars

---------------------------------------------------------------------------
(* AddressSpec: the wallet session changes owner between operations        *)
(* (WalletContext.tsx: setAddress at 218 and 597, setAddress(null) at 406  *)
(* and 663), with one invocation per session                               *)

\* The owners a session can connect.
Owners == {Owner, "0xOther"}

\* No check of the provider and no invocation is in flight.
Quiescent ==
    /\ ~effects.deployment
    /\ ~effects.approvals
    /\ \A t \in Tasks : tasks[t].pc \in {"idle", "done"}

\* Mutant: the derivation effect does not run when the owner changes.
WalletConnect_KeepsSafeAddress(owner) ==
    /\ Quiescent
    /\ address # Null
    /\ address # owner
    /\ address' = owner
    /\ effects' = [effects EXCEPT !.deployment = TRUE]
    /\ tasks' = [t \in Tasks |-> NewTask]
    /\ chain' \in InitialChains
    /\ relayTxs' = <<>>
    /\ UNCHANGED <<safeAddress, isSafeDeployed, isDeployingSafe, approvals,
                   isCheckingApprovals, isApproving, poll, build, wire, check, order>>

\* The wallet provider hands over another owner: the effect at 111-127 derives
\* that owner's wallet address and the effect at 155-168 starts its deployment
\* check; isSafeDeployed and approvals keep the former wallet's values until
\* the checks answer. The chain and the relay are now those of the new wallet.
WalletConnect(owner) ==
    /\ Quiescent
    /\ address # Null
    /\ address # owner
    /\ address' = owner
    /\ safeAddress' = deriveSafe(owner)
    /\ effects' = [effects EXCEPT !.deployment = TRUE]
    /\ tasks' = [t \in Tasks |-> NewTask]
    /\ chain' \in InitialChains
    /\ relayTxs' = <<>>
    /\ UNCHANGED <<isSafeDeployed, isDeployingSafe, approvals, isCheckingApprovals,
                   isApproving, poll, build, wire, check, order>>

\* disconnect(): address is null, so the effects at 111-116 and 155-160 clear
\* safeAddress and isSafeDeployed.
WalletDisconnect ==
    /\ Quiescent
    /\ address # Null
    /\ address' = Null
    /\ safeAddress' = Null
    /\ isSafeDeployed' = FALSE
    /\ tasks' = [t \in Tasks |-> NewTask]
    /\ chain' \in InitialChains
    /\ relayTxs' = <<>>
    /\ UNCHANGED <<isDeployingSafe, approvals, isCheckingApprovals, isApproving,
                   effects, poll, build, wire, check, order>>

AddressNext ==
    \/ Connect
    \/ \E owner \in Owners : WalletConnect(owner)
    \/ WalletDisconnect
    \/ ProviderStep
    \/ TaskStep(1)

AddressSpec == MainInit /\ [][AddressNext]_vars

---------------------------------------------------------------------------
(* CheckSpec: the deployment check of the effect at 155-168, request by     *)
(* request, for the wallets of two owners                                   *)

\* checkDeployment calls checkSafeDeployed, which requests
\* /api/safe/deployed (lines 130-134).
CheckCall ==
    /\ effects.deployment
    /\ safeAddress # Null
    /\ check.stage \in {"idle", "done"}
    /\ check' = [CheckIdle EXCEPT !.stage = "relay"]
    /\ UNCHANGED <<poll, build, wire, order, mainVars>>

\* The request answers with a body (the relayer's, or the error body the
\* relayer or the proxy writes, part_000 170-186), or throws (lines 134-138).
CheckRelayAnswered ==
    /\ check.stage = "relay"
    /\ \E relayResp \in CheckResponses :
        check' = IF relayResp = "throws"
                 THEN [check EXCEPT !.relayResp = relayResp, !.fellBack = TRUE,
                                    !.stage = "fallback"]
                 ELSE [check EXCEPT !.relayResp = relayResp,
                                    !.result = checkSafeDeployed(relayResp, "none"),
                                    !.stage = "returned"]
    /\ UNCHANGED <<poll, build, wire, order, mainVars>>

\* The fallback: provider.getCode answers or throws (lines 141-150).
CheckCodeAnswered ==
    /\ check.stage = "fallback"
    /\ \E codeResp \in CodeResponses :
        check' = [check EXCEPT !.codeResp = codeResp,
                               !.result = checkSafeDeployed(check.relayResp, codeResp),
                               !.stage = "returned"]
    /\ UNCHANGED <<poll, build, wire, order, mainVars>>

\* setIsSafeDeployed(deployed) (lines 162-163), and what it sets off.
CheckSet ==
    /\ check.stage = "returned"
    /\ isSafeDeployed' = check.result
    /\ effects' = [AutoCheck(check.result) EXCEPT !.deployment = FALSE]
    /\ isCheckingApprovals' = (isCheckingApprovals \/ AutoCheck(check.result).approvals)
    /\ check' = [check EXCEPT !.stage = "done"]
    /\ UNCHANGED <<address, safeAddress, isDeployingSafe, approvals, isApproving,
                   tasks, chain, relayTxs, poll, build, wire, order>>

CheckNext ==
    \/ Connect
    \/ \E owner \in Owners : WalletConnect(owner)
    \/ WalletDisconnect
    \/ CheckCall
    \/ CheckRelayAnswered
    \/ CheckCodeAnswered
    \/ CheckSet
    \/ CheckApprovalsCall
    \/ EffectApprovalsChecked

CheckSpec == MainInit /\ [][CheckNext]_vars

---------------------------------------------------------------------------
(* OrderSpec: one call of placeOrder (TradingContext.tsx 329-398), which    *)
(* awaits deploySafe in slot 1 and approveAll in slot 2                     *)

OrderBooks == {"open", "empty", "unreachable"}

OrderThrew == [order EXCEPT !.pc = "done", !.outcome = "threw"]

\* placeOrder is called. Without a trading client (no owner or no wallet
\* address, lines 258-262) it throws at 338-340. Otherwise the callback reads
\* the isSafeDeployed and allApproved of the render it was created in, and so
\* does the approveAll it holds; it calls deploySafe when that isSafeDeployed
\* is false (343-346), else approveAll when that allApproved is false
\* (349-352), else goes on to the order book.
PlaceOrder ==
    /\ order.pc = "idle"
    /\ \A t \in Tasks : tasks[t].pc = "idle"
    /\ LET called == [order EXCEPT !.cDeployed = isSafeDeployed,
                                   !.cAllApproved = AllApproved(approvals),
                                   !.cApprovals = approvals]
           next == ApproveAllEntered(tasks[2], isSafeDeployed, approvals)
       IN IF address = Null \/ safeAddress = Null
          THEN /\ order' = OrderThrew
               /\ UNCHANGED <<tasks, isApproving>>
          ELSE IF ~isSafeDeployed
          THEN /\ order' = [called EXCEPT !.pc = "deploying"]
               /\ tasks' = [tasks EXCEPT ![1] = DeploySafeEntered(tasks[1])]
               /\ UNCHANGED isApproving
          ELSE IF ~AllApproved(approvals)
          THEN /\ order' = [called EXCEPT !.pc = "approving"]
               /\ tasks' = [tasks EXCEPT ![2] = next]
               /\ isApproving' = ApprovingAfter(next)
          ELSE /\ order' = [called EXCEPT !.pc = "validating"]
               /\ UNCHANGED <<tasks, isApproving>>
    /\ UNCHANGED <<address, safeAddress, isSafeDeployed, isDeployingSafe, approvals,
                   isCheckingApprovals, effects, chain, relayTxs, poll, build, wire,
                   check>>

\* await deploySafe() ends (line 345): a throw leaves placeOrder, a return
\* of either value goes on to the approvals (349-352), where approveAll is
\* the callback of the render placeOrder was created in.
OrderDeployReturned ==
    /\ order.pc = "deploying"
    /\ tasks[1].pc = "done"
    /\ LET next == ApproveAllEntered(tasks[2], order.cDeployed, order.cApprovals)
       IN IF tasks[1].outcome = "threw"
          THEN /\ order' = OrderThrew
               /\ UNCHANGED <<tasks, isApproving>>
          ELSE IF ~order.cAllApproved
          THEN /\ order' = [order EXCEPT !.pc = "approving"]
               /\ tasks' = [tasks EXCEPT ![2] = next]
               /\ isApproving' = ApprovingAfter(next)
          ELSE /\ order' = [order EXCEPT !.pc = "validating"]
               /\ UNCHANGED <<tasks, isApproving>>
    /\ UNCHANGED <<address, safeAddress, isSafeDeployed, isDeployingSafe, approvals,
                   isCheckingApprovals, effects, chain, relayTxs, poll, build, wire,
                   check>>

\* await approveAll() ends (line 351).
OrderApproveReturned ==
    /\ order.pc = "approving"
    /\ tasks[2].pc = "done"
    /\ order' = IF tasks[2].outcome = "threw" THEN OrderThrew
                ELSE [order EXCEPT !.pc = "validating"]
    /\ UNCHANGED <<poll, build, wire, check, mainVars>>

\* Lines 357-386: an order book without bids and asks throws; an open one,
\* or a request that fails otherwise (a warning, 371), is followed by
\* client.createAndPostOrder.
OrderValidated ==
    /\ order.pc = "validating"
    /\ \E book \in OrderBooks :
        order' = IF book = "empty" THEN OrderThrew
                 ELSE [order EXCEPT !.pc = "done", !.outcome = "submitted",
                                    !.at = [deployed |-> chain.deployed,
                                            granted |-> chain.granted]]
    /\ UNCHANGED <<poll, build, wire, check, mainVars>>

OrderNext ==
    \/ Connect
    \/ ProviderStep
    \/ PlaceOrder
    \/ OrderDeployReturned
    \/ OrderApproveReturned
    \/ OrderValidated
    \/ \E t \in Tasks : TaskRun(t)

OrderSpec == MainInit /\ [][OrderNext]_vars

\* The scheduling the run relies on: a request is answered (or throws) and a
\* timer fires.
PollFairSpec == PollSpec /\ WF_vars(PollNext)

\* The responses a run has handled so far, in order (the log without its waits).
RECURSIVE Observed(_)
Observed(log) ==
    IF log = <<>> THEN <<>>
    ELSE IF log[1] = "wait" THEN Observed(Tail(log))
    ELSE <<log[1]>> \o Observed(Tail(log))

\* C3: when any poll attempt observes STATE_FAILED, the run raises at that
\* attempt (outcome "failed") and issues no further status request: a FAILED
\* response is the last thing the run ever handled.
C3_FailedRaisesImmediately ==
    \A k \in 1..Len(poll.log) :
        poll.log[k] = TX_STATE.FAILED =>
            /\ k = Len(poll.log)
            /\ poll.pc = "done"
            /\ poll.outcome = "failed"

\* C4: a finished run none of whose attempts observed MINED, CONFIRMED or
\* FAILED ends in the timeout outcome.
C4_NoTerminalIsTimeout ==
    (/\ poll.pc = "done"
     /\ \A k \in 1..Len(poll.log) :
            poll.log[k] \notin {TX_STATE.MINED, TX_STATE.CONFIRMED, TX_STATE.FAILED})
        => poll.outcome = "timeout"

\* C5: a run never issues more than MaxPolls status requests, and it ends.
C5_AtMostPRequestsAndEnds ==
    /\ [](poll.requests <= MaxPolls /\ Len(Observed(poll.log)) <= MaxPolls)
    /\ <>(poll.pc = "done")

C5_Witness ==
    /\ poll.pc = "done"
    /\ poll.requests = MaxPolls
    /\ RequestError \in {poll.log[k] : k \in 1..Len(poll.log)}

\* C6: the first attempt k to observe MINED or CONFIRMED ends the run with
\* success and that transaction record, at attempt k (i = k - 1), and no status
\* request is issued after it.
C6_SuccessAtFirstTerminal ==
    \A k \in 1..Len(poll.log) :
        poll.log[k] \in {TX_STATE.MINED, TX_STATE.CONFIRMED} =>
            /\ k = Len(poll.log)
            /\ poll.pc = "done"
            /\ poll.outcome = "success"
            /\ poll.tx = poll.log[k]
            /\ poll.requests = Len(Observed(poll.log))
            /\ poll.i + 1 = poll.requests

C6_Witness ==
    /\ poll.outcome = "success"
    /\ poll.tx = TX_STATE.CONFIRMED
    /\ poll.requests = MaxPolls
    /\ poll.log[1] = TX_STATE.FAILED

---------------------------------------------------------------------------
(* The multisend framing read back: what the MultiSend contract executes   *)

\* A uint256 word as a number; -1 when it is 2^24 or more.
WordValue(bs) ==
    LET n == Len(bs) IN
    IF \E k \in 1..(n - 3) : bs[k] # 0 THEN -1
    ELSE bs[n - 2] * 65536 + bs[n - 1] * 256 + bs[n]

\* What a payload that does not follow the framing decodes to: no call.
Malformed == <<[to |-> <<>>, data |-> <<>>, value |-> -1, operation |-> -1]>>

\* The entries of a packed multisend payload, in order: per entry one byte of
\* operation kind, 20 bytes of target, a 32-byte value, a 32-byte data length
\* and that many bytes of data.
RECURSIVE DecodeEntries(_)
DecodeEntries(packed) ==
    LET head == 1 + AddressBytes + 2 * WordBytes IN
    IF packed = <<>> THEN <<>>
    ELSE IF Len(packed) < head THEN Malformed
    ELSE LET operation == packed[1]
             to == SubSeq(packed, 2, 1 + AddressBytes)
             value == WordValue(SubSeq(packed, 2 + AddressBytes, 1 + AddressBytes + WordBytes))
             len == WordValue(SubSeq(packed, 2 + AddressBytes + WordBytes, head))
         IN IF value < 0 \/ len < 0 \/ head + len > Len(packed) THEN Malformed
            ELSE <<[to |-> to, data |-> SubSeq(packed, head + 1, head + len),
                    value |-> value, operation |-> operation]>>
                     \o DecodeEntries(SubSeq(packed, head + len + 1, Len(packed)))

\* The calls a multiSend(bytes) call data carries.
DecodeMultiSendCall(data) ==
    IF Len(data) < 4 + 2 * WordBytes \/ SubSeq(data, 1, 4) # SelMultiSend THEN Malformed
    ELSE LET offset == WordValue(SubSeq(data, 5, 4 + WordBytes))
             len == WordValue(SubSeq(data, 5 + WordBytes, 4 + 2 * WordBytes))
             body == 4 + 2 * WordBytes
         IN IF offset # WordBytes \/ len < 0 \/ body + len > Len(data)
                \/ (Len(data) - 4) % WordBytes # 0
                \/ \E k \in (body + len + 1)..Len(data) : data[k] # 0
            THEN Malformed
            ELSE DecodeEntries(SubSeq(data, body + 1, body + len))

\* The statuses of build.approvals that are not approved, by index.
BuildUnsatisfied == {k \in 1..Len(build.approvals) : ~build.approvals[k].approved}

\* C9: when exactly one approval requirement is unsatisfied, the transaction
\* approveAll builds has `to` and `data` equal to that approval's own call
\* (approve on USDCe for an erc20 requirement, setApprovalForAll on CTF for an
\* erc1155 one) and operation 0 (Call): no multisend wrapping.
C9_SingleApprovalIsDirectCall ==
    (build.stage = "aggregated" /\ Cardinality(BuildUnsatisfied) = 1) =>
        LET k == CHOOSE j \in BuildUnsatisfied : TRUE
            a == build.approvals[k]
        IN /\ build.finalOperation = 0
           /\ build.finalTo # SAFE_MULTISEND
           /\ build.finalTo = IF a.type = "erc20" THEN ADDRESSES.USDCe ELSE ADDRESSES.CTF
           /\ build.finalData =
                (IF a.type = "erc20" THEN SelApprove ELSE SelSetApprovalForAll)
                    \o Repeat(0, 12) \o a.spender
                    \o (IF a.type = "erc20" THEN Repeat(255, 32) ELSE Repeat(0, 31) \o <<1>>)
           /\ Len(build.transactions) = 1
           /\ build.finalTo = build.transactions[1].to
           /\ build.finalData = build.transactions[1].data

C9_Witness ==
    /\ build.stage = "aggregated"
    /\ BuildUnsatisfied = {6}
    /\ build.finalTo = ADDRESSES.CTF

\* C10: when two or more approvals are batched, the built transaction is a
\* DelegateCall (operation 1) to SAFE_MULTISEND whose payload decodes, entry by
\* entry, to exactly the original calls: as many, and in the original order.
C10_MultisendRoundTrip ==
    (build.stage = "aggregated" /\ Cardinality(BuildUnsatisfied) >= 2) =>
        /\ build.finalOperation = 1
        /\ build.finalTo = SAFE_MULTISEND
        /\ Len(build.transactions) = Cardinality(BuildUnsatisfied)
        /\ DecodeMultiSendCall(build.finalData) = build.transactions
        /\ \A k \in 1..Len(build.transactions) :
              build.transactions[k] = ApprovalTransaction(build.pending[k])

C10_Witness ==
    /\ build.stage = "aggregated"
    /\ BuildUnsatisfied = {2, 5, 7}
    /\ Len(DecodeMultiSendCall(build.finalData)) = 3
    /\ DecodeMultiSendCall(build.finalData)[2].to = ADDRESSES.CTF

---------------------------------------------------------------------------
(* Claims about the flows of deploySafe and approveAll (Spec)              *)

\* Whether event e is in the log of a task, and how often.
Did(task, e) == \E k \in 1..Len(task.events) : task.events[k] = e
Count(task, e) == Cardinality({k \in 1..Len(task.events) : task.events[k] = e})

\* The execute submissions in flight: posted and not yet answered, or accepted
\* by the relay and not yet in a terminal state; each with its nonce.
InFlightExecutes ==
    {<<"post", t, tasks[t].nonce>> : t \in {u \in Tasks : tasks[u].pc = "A_post"}}
        \cup {<<"tx", id, relayTxs[id].nonce>> :
                id \in {j \in 1..Len(relayTxs) :
                          /\ relayTxs[j].kind = "execute"
                          /\ relayTxs[j].state = TX_STATE.PENDING}}

\* C1: no two execute submissions in flight for the wallet carry the same nonce.
C1_NoNonceReuseInFlight ==
    \A x, y \in InFlightExecutes : x # y => x[3] # y[3]

\* The steps the wallet-scoped lock would hold back: a signature request, a
\* nonce request, a relay submission.
Acted(task) ==
    Did(task, "sign") \/ Did(task, "nonce") \/ Did(task, "deploy") \/ Did(task, "execute")

\* C2: an invocation of deploySafe (resp. approveAll) that starts while an
\* earlier invocation of it has not completed reaches no signature request,
\* nonce request or relay submission until the earlier one has completed.
\* (Slots start in order, so slot u < t started before slot t.)
C2_OneOperationInFlight ==
    \A u, t \in Tasks :
        (/\ u < t
         /\ tasks[u].kind = tasks[t].kind
         /\ tasks[u].pc \notin {"idle", "done"})
            => ~Acted(tasks[t])

\* The position of the first event e in the log of a task (0: none).
First(task, e) ==
    IF Did(task, e) THEN CHOOSE k \in 1..Len(task.events) :
                            /\ task.events[k] = e
                            /\ \A j \in 1..(k - 1) : task.events[j] # e
    ELSE 0

\* C7: an approveAll invocation started on a connected wallet that is not
\* deployed and has no requirement satisfied, and that completes, has gone
\* through the deployment, has then submitted exactly one approval transaction,
\* a multisend over all the requirements, and has then re-run the approval check.
C7_ScenarioA ==
    \A t \in Tasks :
        (/\ tasks[t].kind = "approveAll"
         /\ tasks[t].outcome = "returned"
         /\ tasks[t].start.connected
         /\ ~tasks[t].start.deployed
         /\ tasks[t].start.granted = {})
            => /\ Did(tasks[t], "checkDeployed")
               /\ Count(tasks[t], "execute") = 1
               /\ tasks[t].finalOperation = 1
               /\ tasks[t].finalTo = SAFE_MULTISEND
               /\ IdsOf(tasks[t].pending) = ReqIds
               /\ First(tasks[t], "checkDeployed") < First(tasks[t], "execute")
               /\ First(tasks[t], "execute") < First(tasks[t], "checkApprovals")

\* C8: an approveAll invocation started on a connected wallet that is, on the
\* chain, deployed with every requirement satisfied, requests no signature and
\* no nonce and makes no deploy or execute submission.
C8_ScenarioB ==
    \A t \in Tasks :
        (/\ tasks[t].kind = "approveAll"
         /\ tasks[t].start.connected
         /\ tasks[t].start.deployed
         /\ tasks[t].start.granted = ReqIds)
            => ~Acted(tasks[t])

\* What approveAll does guarantee: when the values it reads (isSafeDeployed and
\* approvals, as captured by the callback at lines 412-428) say deployed and
\* all approved, it returns at once with no request of any kind.
ReturnsAtOnceOnCapturedState ==
    \A t \in Tasks :
        (/\ tasks[t].kind = "approveAll"
         /\ tasks[t].start.connected
         /\ tasks[t].cDeployed
         /\ AllApproved(tasks[t].cApprovals))
            => /\ tasks[t].pc = "done"
               /\ tasks[t].outcome = "returned"
               /\ tasks[t].events = <<>>
               /\ \A id \in 1..Len(relayTxs) : relayTxs[id].by # t

\* The text of a JSON string holding the decimal digits of n.
DecimalStringText(n) == <<"\"">> \o NumberToString(n) \o <<"\"">>

\* C11: a submitted signature is r, then s, then one recovery byte; a raw
\* recovery id of 27 or 28 is submitted as 31 or 32, and no submitted
\* signature carries 27 or 28.
C11_SignaturePackedWithVPlus4 ==
    wire.stage \in {"packed", "posted", "forwarded"} =>
        LET rawV == wire.signature[2 * WordBytes + 1] IN
        /\ Len(wire.packedSig) = 2 * WordBytes + 1
        /\ SubSeq(wire.packedSig, 1, WordBytes) = SubSeq(wire.signature, 1, WordBytes)
        /\ SubSeq(wire.packedSig, WordBytes + 1, 2 * WordBytes)
              = SubSeq(wire.signature, WordBytes + 1, 2 * WordBytes)
        /\ (rawV \in {27, 28} => wire.packedSig[2 * WordBytes + 1] = rawV + 4)
        /\ wire.packedSig[2 * WordBytes + 1] \notin {27, 28}
        /\ (wire.stage # "packed" => wire.payload.signature = wire.packedSig)
        /\ (wire.stage = "forwarded" => wire.forwarded.signature = wire.packedSig)

C11_Witness ==
    /\ wire.stage = "forwarded"
    /\ wire.signature = RawSignature(258, 515, 28)
    /\ wire.forwarded.signature[2 * WordBytes + 1] = 32

\* C12: the nonce field of the posted payload, and of the body the proxy
\* forwards, is a JSON string holding the decimal digits of the nonce that
\* was put in the signed struct; never a JSON number.
C12_NonceIsDecimalString ==
    /\ (wire.stage \in {"posted", "forwarded"} =>
            wire.payload.nonce = DecimalStringText(wire.signedNonce))
    /\ (wire.stage = "forwarded" =>
            wire.forwarded.nonce = DecimalStringText(wire.signedNonce))

C12_Witness ==
    /\ wire.stage = "forwarded"
    /\ wire.nonceData = JsNumber(MaxWireNonce)
    /\ wire.signedNonce = MaxWireNonce
    /\ wire.forwarded.nonce = DecimalStringText(MaxWireNonce)

\* The relay transactions submitted by the invocation in slot t.
SubmittedBy(t) == {id \in 1..Len(relayTxs) : relayTxs[id].by = t}

\* C13: a deploySafe call whose deployment check reports the wallet deployed
\* requests no signature and submits nothing, and returns normally at once;
\* so does every further such call.
C13_DeployIdempotent ==
    \A t \in Tasks :
        tasks[t].alreadyDeployed = "yes" =>
            /\ ~Did(tasks[t], "deploy")
            /\ \A id \in SubmittedBy(t) : relayTxs[id].kind # "deploy"
            /\ tasks[t].kind = "deploySafe" =>
                  /\ tasks[t].pc = "done"
                  /\ tasks[t].outcome = "returned"
                  /\ tasks[t].events = <<"checkDeployed">>
                  /\ SubmittedBy(t) = {}

C13_Witness ==
    \A t \in Tasks :
        /\ tasks[t].kind = "deploySafe"
        /\ tasks[t].alreadyDeployed = "yes"
        /\ tasks[t].outcome = "returned"

\* C14: an approveAll invocation whose poll ended in timeout has re-run the
\* approval check by the time it reports its outcome.
C14_TimeoutRechecksApprovals ==
    \A t \in Tasks :
        (/\ tasks[t].kind = "approveAll"
         /\ Did(tasks[t], "execute")
         /\ tasks[t].polled = "timeout"
         /\ tasks[t].pc = "done")
            => Did(tasks[t], "checkApprovals")

\* The deploy poll of the invocation has ended with this outcome and the
\* invocation has not gone on to an approval submission.
DeployPollEnded(task, outcome) ==
    task.polled = outcome /\ Did(task, "deploy") /\ ~Did(task, "execute")

\* C15: after the poll of a deploy transaction ended in timeout, deploySafe
\* runs the deployment check again before it reports any outcome: it is at
\* that check, or has made it.
C15_TimeoutRechecksDeployment ==
    \A t \in Tasks :
        DeployPollEnded(tasks[t], "timeout") =>
            \/ tasks[t].pc = "D_verify" /\ Count(tasks[t], "checkDeployed") = 1
            \/ /\ Count(tasks[t], "checkDeployed") = 2
               /\ First(tasks[t], "deploy") < Len(tasks[t].events)
               /\ tasks[t].events[First(tasks[t], "deploy") + 1] = "checkDeployed"

C15_Witness ==
    /\ tasks[1].kind = "deploySafe"
    /\ tasks[1].polled = "timeout"
    /\ tasks[1].pc = "done"
    /\ tasks[1].events = <<"checkDeployed", "sign", "deploy", "checkDeployed">>

\* C16: isSafeDeployed is true only if a deployment query has reported the
\* wallet deployed; a query reports it only of a wallet that is on the chain,
\* and a wallet on the chain stays there.
C16_DeployedOnlyByQuery ==
    isSafeDeployed => chain.deployed

\* C17: an invocation whose signature request was declined has raised at
\* once: the declined request is its last step, it was not asked again, and
\* the operation it was signing for was never submitted.
C17_DeclinedRaisesAtOnce ==
    \A t \in Tasks :
        Did(tasks[t], "declined") =>
            LET events == tasks[t].events IN
            /\ tasks[t].pc = "done"
            /\ tasks[t].outcome = "threw"
            /\ Count(tasks[t], "declined") = 1
            /\ events[Len(events)] = "declined"
            /\ events[Len(events) - 1] = "sign"
            /\ ~Did(tasks[t], "execute")
            /\ \A id \in SubmittedBy(t) : relayTxs[id].kind # "execute"
            /\ ~Did(tasks[t], "deploy") => SubmittedBy(t) = {}

C17_Witness ==
    /\ tasks[1].kind = "deploySafe"
    /\ Did(tasks[1], "declined")
    /\ tasks[2].kind = "approveAll"
    /\ Did(tasks[2], "declined")
    /\ Did(tasks[2], "nonce")

\* C19: no approveAll invocation reaches the nonce request, the signature
\* request or the execute submission of an approval transaction unless the
\* wallet is deployed.
C19_NoApprovalBeforeDeployment ==
    \A t \in Tasks :
        tasks[t].pc \in {"A_nonce", "A_sign", "A_post"} => chain.deployed

\* C20: a deploySafe whose poll ended on the relay's FAILED state does not
\* complete normally: when it ends it has raised to its caller, and an
\* approveAll that called it does not go on.
C20_FailedDeployRaises ==
    \A t \in Tasks :
        DeployPollEnded(tasks[t], "failed") =>
            /\ tasks[t].pc \in {"D_verify", "done"}
            /\ tasks[t].pc = "done" => tasks[t].outcome = "threw"

C30_OneIntervalBetweenRequests ==
    \A k \in 1..(Len(poll.log) - 1) :
        poll.log[k] # "wait" => poll.log[k + 1] = "wait"

\* The index of the j-th unsatisfied status of build.approvals.
NthUnsatisfied(j) ==
    CHOOSE k \in BuildUnsatisfied : Cardinality({i \in BuildUnsatisfied : i <= k}) = j

\* C29: the calls approveAll builds are, in list order, one per unsatisfied
\* requirement and none for a satisfied one: approve(spender, 2^256 - 1) on
\* USDCe for an erc20 requirement, setApprovalForAll(spender, true) on CTF
\* for an erc1155 one, each with value 0 and operation 0 (Call).
C29_OneCallPerUnsatisfied ==
    build.stage \in {"mapped", "aggregated"} =>
        /\ Len(build.transactions) = Cardinality(BuildUnsatisfied)
        /\ \A j \in 1..Len(build.transactions) :
            LET a == build.approvals[NthUnsatisfied(j)]
                tx == build.transactions[j]
            IN /\ tx.value = 0
               /\ tx.operation = 0
               /\ Len(tx.data) = 4 + 2 * WordBytes
               /\ SubSeq(tx.data, 5, 16) = Repeat(0, 12)
               /\ SubSeq(tx.data, 17, 36) = a.spender
               /\ IF a.type = "erc20"
                  THEN /\ tx.to = ADDRESSES.USDCe
                       /\ SubSeq(tx.data, 1, 4) = SelApprove
                       /\ SubSeq(tx.data, 37, 68) = Repeat(255, 32)
                  ELSE /\ tx.to = ADDRESSES.CTF
                       /\ SubSeq(tx.data, 1, 4) = SelSetApprovalForAll
                       /\ SubSeq(tx.data, 37, 68) = Repeat(0, 31) \o <<1>>

C29_Witness ==
    /\ build.stage = "mapped"
    /\ BuildUnsatisfied = {2, 5, 7}
    /\ build.transactions[1].to = ADDRESSES.USDCe
    /\ build.transactions[2].to = ADDRESSES.CTF
    /\ SubSeq(build.transactions[3].data, 17, 36) = ADDRESSES.NEG_RISK_ADAPTER

\* The invocation has asked for the signature of an approval transaction.
ReachedApprovalSigning(task) == task.nonce # -1

\* C21: in an approveAll invocation that reaches signing, the nonce of the
\* signed transaction is the value the relay returned to the one nonce
\* request of that invocation, made before the signature request.
C21_SignedNonceIsFetchedNonce ==
    \A t \in Tasks :
        ReachedApprovalSigning(tasks[t]) =>
            /\ Count(tasks[t], "nonce") = 1
            /\ First(tasks[t], "nonce") < Len(tasks[t].events)
            /\ tasks[t].events[First(tasks[t], "nonce") + 1] = "sign"
            /\ tasks[t].nonceData.t \in {"number", "string"}
            /\ tasks[t].nonce = BigNumberFrom(tasks[t].nonceData)

\* What does hold: whenever the relay's answer carried a nonce, the signed
\* nonce is that nonce, requested once in the same invocation.
SignedNonceIsAnswerWhenGiven ==
    \A t \in Tasks :
        (ReachedApprovalSigning(tasks[t]) /\ tasks[t].nonceData.t \in {"number", "string"}) =>
            /\ Count(tasks[t], "nonce") = 1
            /\ tasks[t].nonce = BigNumberFrom(tasks[t].nonceData)

\* C22: an approveAll invocation whose nonce request was answered without a
\* nonce has raised without asking for a signature or submitting anything.
C22_NoNonceRaises ==
    \A t \in Tasks :
        tasks[t].nonceData.t = "undefined" =>
            /\ tasks[t].pc = "done"
            /\ tasks[t].outcome = "threw"
            /\ ~ReachedApprovalSigning(tasks[t])
            /\ ~Did(tasks[t], "execute")

\* The invocation polled the approval transaction it submitted and that poll
\* has ended in success (MINED or CONFIRMED observed); while it runs, polled
\* still holds the outcome of the deploy poll, if any.
ApprovalObservedMined(t) ==
    /\ tasks[t].txId \in SubmittedBy(t)
    /\ relayTxs[tasks[t].txId].kind = "execute"
    /\ tasks[t].pc # "A_poll"
    /\ tasks[t].polled = "success"

\* C27: an approveAll invocation that has completed normally after its
\* execute submission was accepted has observed that transaction MINED or
\* CONFIRMED in its poll.
C27_NormalReturnOnlyAfterMined ==
    \A t \in Tasks :
        (/\ tasks[t].kind = "approveAll"
         /\ tasks[t].pc = "done"
         /\ tasks[t].outcome = "returned"
         /\ \E id \in SubmittedBy(t) : relayTxs[id].kind = "execute")
            => ApprovalObservedMined(t)

\* C28: an approveAll invocation that observed its approval transaction MINED
\* or CONFIRMED is running checkApprovals or has returned right after it, and
\* the step in which that check ends leaves in approvals what the check read
\* from the chain (or, when its reads threw, what was there before): nothing
\* is inferred from the relay's report.
C28_RechecksAfterMined ==
    /\ [](\A t \in Tasks :
            (tasks[t].kind = "approveAll" /\ ApprovalObservedMined(t)) =>
                /\ tasks[t].events[Len(tasks[t].events)] = "checkApprovals"
                /\ \/ tasks[t].pc = "A_check"
                   \/ tasks[t].pc = "done" /\ tasks[t].outcome = "returned")
    /\ [][\A t \in Tasks :
            (tasks[t].pc = "A_check" /\ tasks'[t].pc = "done") =>
                approvals' \in {approvals, ApprovalStatuses(chain.granted)}]_vars

C28_Witness ==
    /\ tasks[1].kind = "approveAll"
    /\ ApprovalObservedMined(1)
    /\ tasks[1].pc = "done"
    /\ IdsOf(tasks[1].pending) = {6}
    /\ approvals = ApprovalStatuses(ReqIds)


\* Whether an execute body describes the signed struct and its domain: the
\* same to and data, the nonce and the operation as decimal text of the signed
\* ones, proxyWallet the verifying contract, every gas field zero.
DescribesSigned(body, safeTx, domain) ==
    /\ body.to = safeTx.to
    /\ body.data = safeTx.data
    /\ JsonParse(body.nonce).t = "string"
    /\ JsonParse(body.nonce).chars = NumberToString(safeTx.nonce)
    /\ body.signatureParams.operation = NumberToString(safeTx.operation)
    /\ body.proxyWallet = domain.verifyingContract
    /\ safeTx.value = 0
    /\ "value" \notin DOMAIN body
    /\ safeTx.safeTxGas = 0 /\ body.signatureParams.safeTxnGas = <<"0">>
    /\ safeTx.baseGas = 0 /\ body.signatureParams.baseGas = <<"0">>
    /\ safeTx.gasPrice = 0 /\ body.signatureParams.gasPrice = <<"0">>
    /\ safeTx.gasToken = ZERO_ADDRESS /\ body.signatureParams.gasToken = ZERO_ADDRESS
    /\ safeTx.refundReceiver = ZERO_ADDRESS
    /\ body.signatureParams.refundReceiver = ZERO_ADDRESS

\* C26: every /api/safe/execute submission, as posted and as the proxy
\* forwards it, describes exactly the signed SafeTx: to, data, nonce and
\* operation are those of the struct, proxyWallet is the verifying contract of
\* the signing domain, the gas fields are zero and gasToken and refundReceiver
\* the zero address in both (the body carries no value of its own).
C26_SubmissionDescribesSigned ==
    /\ (wire.stage \in {"posted", "forwarded"} =>
            DescribesSigned(wire.payload, wire.safeTx, wire.domain))
    /\ (wire.stage = "forwarded" =>
            DescribesSigned(wire.forwarded, wire.safeTx, wire.domain))

\* C26 witness: a multisend for the second wallet, signed as a delegate call
\* with the largest nonce, has been forwarded to the relayer.
C26_Witness ==
    /\ wire.stage = "forwarded"
    /\ wire.safeTx.operation = 1
    /\ wire.safeTx.to = SAFE_MULTISEND
    /\ wire.safeTx.nonce = MaxWireNonce
    /\ wire.forwarded.to = SAFE_MULTISEND
    /\ wire.forwarded.proxyWallet = deriveSafe("0xOther")


\* C24: approval state belongs to one owner session: in the step in which the
\* owner address is cleared or replaced by another owner, the approval
\* statuses computed for the former owner's wallet are dropped, so that
\* allApproved and the decisions of approveAll and placeOrder are never taken
\* on another wallet's approvals.
C24_ApprovalsDroppedWithOwner ==
    [][(address # Null /\ address' # address) => approvals' = <<>>]_vars


\* C25: whenever the relay's is-deployed request errors (it throws, or an
\* error response is answered), checkSafeDeployed falls back to the chain's
\* bytecode check and returns its result: deployed iff the code at the wallet
\* address is non-empty.
C25_FallsBackOnRelayError ==
    (check.stage = "returned" /\ check.relayResp \in {"throws", "errorBody"}) =>
        /\ check.fellBack
        /\ check.codeResp = "ok" => check.result = chain.deployed


\* C23: placeOrder submits an order to the exchange only when the wallet is
\* deployed and every approval requirement is satisfied; when the deployment
\* or the approval it asked for did not leave the wallet so, no order is
\* submitted.
C23_OrderOnlyWhenReady ==
    order.outcome = "submitted" =>
        /\ order.at.deployed
        /\ order.at.granted = ReqIds

====
